---- MODULE Spec2Model ----
(***************************************************************************)
(* Model of the LED pattern detectors of estimacion_centros_opticos:       *)
(*   RobustLEDDetector  (led_detector_final.py)                            *)
(*   StrictLEDDetector  (etapa2_kalman_parpadeo/led_detector_estricto.py)  *)
(*                                                                         *)
(* Numbers.  Pixel coordinates are integers (pixels); confidences are in   *)
(* hundredths (90 stands for 0.90).  The Python code computes in IEEE      *)
(* doubles; where the code divides or takes a square root the model        *)
(* computes the same quantity in fixed point and says so at the operator.  *)
(* Comparisons of Euclidean distances against integer thresholds are done  *)
(* on the squares, which is exact for integer coordinates.                 *)
(*                                                                         *)
(* The OpenCV image operators (threshold, connectedComponents, Hough,      *)
(* contours) are outside the repository: what they return for a frame is   *)
(* the input of a step, drawn from the scenes described below.             *)
(***************************************************************************)
EXTENDS Integers, Sequences, FiniteSets, TLC

VARIABLES
    variant,          \* which program runs: "robust", "strict", ... (see Init)
    last_positions,   \* RobustLEDDetector.last_positions, VideoMarker.last_positions
    led_trajectory,   \* RobustLEDDetector.led_trajectory: id -> sequence of (x, y)
    frame_count,      \* <detector>.frame_count
    trackers,         \* StrictLEDDetector.trackers: id -> Kalman filter state
    last_valid_detection, \* StrictLEDDetector.last_valid_detection
    ret,              \* value returned by the last call of detect
    call,             \* record of the last call of detect: its input and intermediate values
    truth,            \* the physical markers behind the frames seen so far
    video             \* VideoProcessor: the opened file, the loop of process, self.results

vars == <<variant, last_positions, led_trajectory, frame_count, trackers,
          last_valid_detection, ret, call, truth, video>>

\* ------------------------------------------------------------------ bounds
\* Number of frames fed to a detector in one run.
MaxFrames == 3
\* Largest offset, in pixels, of the middle point of a bent triplet.
MaxOffset == 10
\* Number of frame results in the short result lists given to the statistics.
MaxResults == 4
\* Number of frames in a video file.
MaxVideo == 2
\* Number of measurements given to a Kalman filter in one run.
MaxSamples == 30
\* Number of blobs in a list given to _find_best_triplet.
MaxBlobs == 4
\* Number of detections in a frame given to VideoMarker._assign_led_ids.
MaxDetections == 4

\* ------------------------------------------------------------------ constants
expected_leds == 3
min_led_area == 30
max_led_area == 300
max_jump_dist == 150
distance_threshold == 20
\* StrictLEDDetector.__init__ defaults; spacing_tolerance 0.10 is in thousandths.
max_collinearity_error == 5
spacing_tolerance == 100
min_led_distance == 50
max_led_distance == 400
min_blob_area == 20
max_blob_area == 500
\* KalmanTracker: processNoiseCov = 1.0 * I, measurementNoiseCov = 5.0 * I.
process_noise == 1
measurement_noise == 5
\* float('inf'): above every finite value of the model.
Inf == 2000000000

\* Python's None where a list is expected (last_positions, last_valid_detection).
None == <<>>
\* None as an entry of assigned_ids, and as an entry of assigned_detections.
NoneId == -1
NoneDet == [x |-> -1, y |-> -1, conf |-> -1]
Ids == 0 .. (expected_leds - 1)

\* ------------------------------------------------------------------ helpers
Abs(n) == IF n < 0 THEN -n ELSE n

Dist2(p, q) == (p.x - q.x) * (p.x - q.x) + (p.y - q.y) * (p.y - q.y)

RECURSIVE SumSeq(_)
SumSeq(s) == IF s = <<>> THEN 0 ELSE Head(s) + SumSeq(Tail(s))

\* Integer nearest to num/den (den > 0, num >= 0): the fixed-point stand-in for a
\* floating-point quotient.
RoundDiv(num, den) == (2 * num + den) \div (2 * den)

RECURSIVE Flatten(_)
Flatten(ll) == IF ll = <<>> THEN <<>> ELSE Head(ll) \o Flatten(Tail(ll))

\* The elements of a finite set of integers in ascending order.
RECURSIVE Ascending(_)
Ascending(S) ==
    IF S = {} THEN <<>>
    ELSE LET m == CHOOSE a \in S : \A b \in S : a <= b
         IN  <<m>> \o Ascending(S \ {m})

\* ------------------------------------------------------------------ RobustLEDDetector
\* sort(key=lambda d: d[2], reverse=True): descending confidence, stable.
ConfBeforeOrEqual(a, b) == a.conf >= b.conf
ConfBefore(a, b) == a.conf > b.conf

\* sorted(detections, key=lambda d: d[0]): ascending x, stable.
XBeforeReversed(a, b) == a.x > b.x
XBefore(a, b) == a.x < b.x

\* Python's sorted / list.sort are stable: equal keys keep their input order.
\* Insertion of e behind the elements that are not after it.
RECURSIVE InsertByX(_, _)
InsertByX(e, s) ==
    IF s = <<>> THEN <<e>>
    ELSE IF XBefore(e, Head(s)) THEN <<e>> \o s
    ELSE <<Head(s)>> \o InsertByX(e, Tail(s))

RECURSIVE SortByX(_)
SortByX(s) ==
    IF s = <<>> THEN <<>>
    ELSE InsertByX(s[Len(s)], SortByX(SubSeq(s, 1, Len(s) - 1)))

RECURSIVE InsertByConf(_, _)
InsertByConf(e, s) ==
    IF s = <<>> THEN <<e>>
    ELSE IF ConfBefore(e, Head(s)) THEN <<e>> \o s
    ELSE <<Head(s)>> \o InsertByConf(e, Tail(s))

RECURSIVE SortByConf(_)
SortByConf(s) ==
    IF s = <<>> THEN <<>>
    ELSE InsertByConf(s[Len(s)], SortByConf(SubSeq(s, 1, Len(s) - 1)))

\* dist < distance_threshold, on squares.
WithinMergeRadiusWide(p, q) == Dist2(p, q) < 30 * 30
WithinMergeRadius(p, q) == Dist2(p, q) < distance_threshold * distance_threshold

\* The fused point of a cluster: confidence-weighted mean position and arithmetic
\* mean confidence.  Fixed point: the quotients are rounded to the pixel and to
\* the hundredth.  The extractors return confidences > 0, so the sum is > 0.
FuseUnweighted(cluster) ==
    LET n     == Len(cluster)
        total == SumSeq([k \in 1 .. n |-> cluster[k].conf])
    IN  [x    |-> RoundDiv(SumSeq([k \in 1 .. n |-> cluster[k].x]), n),
         y    |-> RoundDiv(SumSeq([k \in 1 .. n |-> cluster[k].y]), n),
         conf |-> RoundDiv(total, n)]
Fuse(cluster) ==
    LET n     == Len(cluster)
        total == SumSeq([k \in 1 .. n |-> cluster[k].conf])
    IN  [x    |-> RoundDiv(SumSeq([k \in 1 .. n |-> cluster[k].x * cluster[k].conf]), total),
         y    |-> RoundDiv(SumSeq([k \in 1 .. n |-> cluster[k].y * cluster[k].conf]), total),
         conf |-> RoundDiv(total, n)]

\* The greedy clustering loop over the confidence-sorted candidates.
RECURSIVE MergeFrom(_, _, _, _)
MergeFrom(all, i, used, merged) ==
    IF i > Len(all) THEN merged
    ELSE IF i \in used THEN MergeFrom(all, i + 1, used, merged)
    ELSE LET absorbed == {j \in (i + 1) .. Len(all) :
                              j \notin used /\ WithinMergeRadius(all[i], all[j])}
             order    == Ascending(absorbed)
             cluster  == <<all[i]>> \o [k \in 1 .. Len(order) |-> all[order[k]]]
         IN  MergeFrom(all, i + 1, used \cup absorbed \cup {i},
                       Append(merged, Fuse(cluster)))

merge_detections(detections_list) ==
    LET all_detections == Flatten(detections_list)
    IN  IF all_detections = <<>> THEN <<>>
        ELSE MergeFrom(SortByConf(all_detections), 1, {}, <<>>)

\* "if dist > max_jump_dist: continue", on squares.
TooFarNever(old, new) == FALSE
TooFarShort(old, new) == Dist2(old, new) > 100 * 100
TooFar(old, new) == Dist2(old, new) > max_jump_dist * max_jump_dist

\* The inner loop: the first among the nearest unused detections that are not
\* too far from the stored position old, or -1.  best_new_idx = -1 stands for
\* best_dist = inf.  Indices are those of the code (from 0).
RECURSIVE BestNewIdx(_, _, _, _, _, _)
BestNewIdx(old, detections, used, new_idx, best_new_idx, best_d2) ==
    IF new_idx >= Len(detections) THEN best_new_idx
    ELSE LET d2 == Dist2(old, detections[new_idx + 1])
         IN  IF \/ new_idx \in used
                \/ TooFar(old, detections[new_idx + 1])
                \/ ~(best_new_idx = -1 \/ d2 < best_d2)
             THEN BestNewIdx(old, detections, used, new_idx + 1, best_new_idx, best_d2)
             ELSE BestNewIdx(old, detections, used, new_idx + 1, new_idx, d2)

\* The dict assignment as a function: old_idx -> new_idx, -1 for an absent key.
NoAssignment == [old_idx \in Ids |-> -1]

\* The outer loop over the stored positions.
RECURSIVE AssignFrom(_, _, _, _, _)
AssignFrom(last, detections, old_idx, assignment, used) ==
    IF old_idx >= Len(last) THEN assignment
    ELSE LET best == BestNewIdx(last[old_idx + 1], detections, used, 0, -1, 0)
         IN  IF best # -1
             THEN AssignFrom(last, detections, old_idx + 1,
                             [assignment EXCEPT ![old_idx] = best], used \cup {best})
             ELSE AssignFrom(last, detections, old_idx + 1, assignment, used)

\* unassigned_ids: the ids that are no key of assignment, ascending.
UnassignedIdsAll(assignment) == Ascending(Ids)
UnassignedIdsDescending(assignment) ==
    LET asc == Ascending({i \in Ids : assignment[i] = -1})
    IN  [k \in 1 .. Len(asc) |-> asc[Len(asc) + 1 - k]]
UnassignedIds(assignment) == Ascending({i \in Ids : assignment[i] = -1})

\* unassigned_dets: the detection indices no key of assignment maps to, ascending.
UnassignedDets(assignment, n) ==
    Ascending({d \in 0 .. (n - 1) : \A i \in Ids : assignment[i] # d})

\* "if len(detections) != self.expected_leds": the frame is not tracked.
WrongCountOnlyEmpty(detections) == Len(detections) = 0
WrongCount(detections) == Len(detections) # expected_leds

Pos(d) == <<d.x, d.y>>

\* zip(unassigned_dets, unassigned_ids) stops at the shorter list.
ZipLen(free_dets, free_ids) ==
    IF Len(free_dets) < Len(free_ids) THEN Len(free_dets) ELSE Len(free_ids)

\* The id the fill-in loop gives to detection index d, None when it gives none.
FilledId(d, free_dets, free_ids) ==
    IF \E k \in 1 .. ZipLen(free_dets, free_ids) : free_dets[k] = d
    THEN free_ids[CHOOSE k \in 1 .. ZipLen(free_dets, free_ids) : free_dets[k] = d]
    ELSE NoneId

\* assigned_ids[d] after both loops.
AssignedId(d, assignment, free_dets, free_ids) ==
    IF \E i \in Ids : assignment[i] = d
    THEN CHOOSE i \in Ids : assignment[i] = d
    ELSE FilledId(d, free_dets, free_ids)

\* What the two loops append to led_trajectory[i]: one sample per key of
\* assignment, then one per filled pair.
AppendedMatchedOnly(i, detections, assignment, free_dets, free_ids) ==
    IF assignment[i] # -1 THEN <<Pos(detections[assignment[i] + 1])>> ELSE <<>>
Appended(i, detections, assignment, free_dets, free_ids) ==
    (IF assignment[i] # -1 THEN <<Pos(detections[assignment[i] + 1])>> ELSE <<>>)
    \o (IF \E k \in 1 .. ZipLen(free_dets, free_ids) : free_ids[k] = i
        THEN <<Pos(detections[free_dets[CHOOSE k \in 1 .. ZipLen(free_dets, free_ids) :
                                            free_ids[k] = i] + 1])>>
        ELSE <<>>)

\* "Construir resultado" and "Rellenar no asignados".
FillIn(trajectory, detections, assignment, free_dets, free_ids) ==
    [detections |-> [k \in 1 .. Len(detections) |->
                        IF AssignedId(k - 1, assignment, free_dets, free_ids) = NoneId
                        THEN NoneDet ELSE detections[k]],
     ids |-> [k \in 1 .. Len(detections) |->
                 AssignedId(k - 1, assignment, free_dets, free_ids)],
     sorted |-> detections,
     last_positions |-> detections,
     led_trajectory |-> [i \in Ids |-> trajectory[i] \o
                            Appended(i, detections, assignment, free_dets, free_ids)],
     branch |-> "tracked", assignment |-> assignment,
     filled |-> {free_dets[k] : k \in 1 .. ZipLen(free_dets, free_ids)}]

Tracked(trajectory, detections, assignment) ==
    FillIn(trajectory, detections, assignment,
           UnassignedDets(assignment, Len(detections)), UnassignedIds(assignment))

\* The frame is returned as it is, with the ids 0, 1, ... in x order.
Untracked(last, trajectory, detections, branch) ==
    [detections |-> detections, ids |-> [k \in 1 .. Len(detections) |-> k - 1],
     sorted |-> detections, last_positions |-> last, led_trajectory |-> trajectory,
     branch |-> branch, assignment |-> NoAssignment, filled |-> {}]

\* The first frame with expected_leds detections.
First(trajectory, detections) ==
    Untracked(detections,
              [i \in Ids |-> IF i < Len(detections)
                             THEN Append(trajectory[i], Pos(detections[i + 1]))
                             ELSE trajectory[i]],
              detections, "first")

AssignSorted(last, trajectory, detections) ==
    IF WrongCount(detections) THEN Untracked(last, trajectory, detections, "count")
    ELSE IF last = None THEN First(trajectory, detections)
    ELSE Tracked(trajectory, detections,
                 AssignFrom(last, detections, 0, NoAssignment, {}))

\* _assign_led_ids_robust: the values returned and the detector's fields after it.
assign_led_ids_robust(last, trajectory, unsorted) ==
    AssignSorted(last, trajectory, SortByX(unsorted))

\* "success = len(leds) == self.expected_leds"
SuccessAny(leds) == Len(leds) > 0
Success(leds) == Len(leds) = expected_leds

\* "if len(detections) > self.expected_leds: detections = detections[:self.expected_leds]"
Cap(detections) ==
    IF Len(detections) > expected_leds THEN SubSeq(detections, 1, expected_leds)
    ELSE detections

LED(d) == [x |-> d.x, y |-> d.y, confidence |-> d.conf, method |-> "Combinado"]

\* The end of detect.  Unpacking a None entry of the assigned detections
\* ("for x, y, conf in detections") raises TypeError before frame_count is
\* incremented.
Returned(a, merged, count) ==
    [ret |-> IF \E k \in 1 .. Len(a.detections) : a.detections[k] = NoneDet
             THEN [called |-> TRUE, raised |-> TRUE]
             ELSE [called |-> TRUE, raised |-> FALSE,
                   success |-> Success(a.detections),
                   leds |-> [k \in 1 .. Len(a.detections) |-> LED(a.detections[k])],
                   led_ids |-> a.ids],
     last_positions |-> a.last_positions,
     led_trajectory |-> a.led_trajectory,
     frame_count    |-> IF \E k \in 1 .. Len(a.detections) : a.detections[k] = NoneDet
                        THEN count ELSE count + 1,
     merged |-> merged, sorted |-> a.sorted, branch |-> a.branch,
     assignment |-> a.assignment, filled |-> a.filled]

Merged(last, trajectory, count, merged) ==
    Returned(assign_led_ids_robust(last, trajectory, Cap(merged)), merged, count)

\* RobustLEDDetector.detect on the candidate lists [det1, det2, det3, det4] of a
\* frame: the value returned and the detector's fields after the call.
robust_detect(last, trajectory, count, detections_list) ==
    Merged(last, trajectory, count, merge_detections(detections_list))

\* ------------------------------------------------------------------ VideoMarker
\* _assign_led_ids of led_detector_video_output.py.  The inner loop: the first
\* among the nearest unused stored positions closer than max_jump_dist to the
\* new point, or -1.  best_id = -1 stands for best_dist = inf.
RECURSIVE BestOldId(_, _, _, _, _, _)
BestOldId(new, last, used_ids, old_id, best_id, best_d2) ==
    IF old_id >= Len(last) THEN best_id
    ELSE IF \/ old_id \in used_ids
            \/ ~(Dist2(last[old_id + 1], new) < max_jump_dist * max_jump_dist)
            \/ ~(best_id = -1 \/ Dist2(last[old_id + 1], new) < best_d2)
         THEN BestOldId(new, last, used_ids, old_id + 1, best_id, best_d2)
         ELSE BestOldId(new, last, used_ids, old_id + 1, old_id,
                        Dist2(last[old_id + 1], new))

\* "for led_id in range(self.expected_leds): if led_id not in used_ids": the
\* lowest unused id below expected_leds, or -1 when the loop ends without break.
FirstUnusedId(used_ids) ==
    IF Ids \ used_ids = {} THEN -1
    ELSE CHOOSE i \in Ids \ used_ids : \A j \in Ids \ used_ids : i <= j

\* The id of a new point: the matched one, else the first unused one, else -1.
IdFor(best_id, used_ids) == IF best_id # -1 THEN best_id ELSE FirstUnusedId(used_ids)

WithId(led_id, d) == [led_id |-> led_id, x |-> d.x, y |-> d.y, conf |-> d.conf]

\* The outer loop over the new points, k from 1.
RECURSIVE AssignNew(_, _, _, _, _)
AssignNew(detections, last, k, assigned, used_ids) ==
    IF k > Len(detections) THEN assigned
    ELSE \* a point that finds no id is not appended
         IF IdFor(BestOldId(detections[k], last, used_ids, 0, -1, 0), used_ids) = -1
         THEN AssignNew(detections, last, k + 1, assigned, used_ids)
         ELSE AssignNew(detections, last, k + 1,
                        Append(assigned,
                               WithId(IdFor(BestOldId(detections[k], last, used_ids, 0, -1, 0),
                                            used_ids),
                                      detections[k])),
                        used_ids \cup {IdFor(BestOldId(detections[k], last, used_ids, 0, -1, 0),
                                             used_ids)})

\* "self.last_positions = [(x, y, c) for _, x, y, c in assigned]"
Stored(assigned) ==
    [k \in 1 .. Len(assigned) |->
        [x |-> assigned[k].x, y |-> assigned[k].y, conf |-> assigned[k].conf]]

Matched(assigned) == [assigned |-> assigned, last_positions |-> Stored(assigned)]

\* The list is returned with the ids 0, 1, ... in x order and stored.
Enumerated(detections) ==
    [assigned |-> [k \in 1 .. Len(detections) |-> WithId(k - 1, detections[k])],
     last_positions |-> detections]

MarkerSorted(last, detections) ==
    IF detections = <<>> THEN [assigned |-> <<>>, last_positions |-> last]
    ELSE IF last = None \/ Len(last) # Len(detections) THEN Enumerated(detections)
    ELSE Matched(AssignNew(detections, last, 1, <<>>, {}))

\* VideoMarker._assign_led_ids: the list returned and last_positions after it.
assign_led_ids(last, unsorted) == MarkerSorted(last, SortByX(unsorted))

\* ------------------------------------------------------------------ fixed point
\* The strict detector's lengths, errors, ratios and filter states are in
\* thousandths (1000 stands for 1.0 pixel, or for the ratio 1.0), rounded down.
\* Frames are at most 1280 x 720, which keeps every product below 2^31.

RECURSIVE ISqrtIn(_, _, _)
ISqrtIn(n, lo, hi) ==
    IF lo >= hi THEN lo
    ELSE LET mid == (lo + hi + 1) \div 2
         IN  IF mid * mid <= n THEN ISqrtIn(n, mid, hi) ELSE ISqrtIn(n, lo, mid - 1)

\* One more decimal digit of a square root (the long-hand method): from the root
\* so far and the remainder n - root^2 to the same pair one digit further.
SqrtDigit(rr) ==
    LET rem == rr[2] * 100
        d   == CHOOSE d \in 0 .. 9 :
                   /\ (20 * rr[1] + d) * d <= rem
                   /\ (d = 9 \/ (20 * rr[1] + d + 1) * (d + 1) > rem)
    IN  <<10 * rr[1] + d, rem - (20 * rr[1] + d) * d>>

\* floor(1000 * sqrt(n)), for 0 <= n < 2^21.
SqrtMilli(n) ==
    LET r == ISqrtIn(n, 0, 2048)
    IN  SqrtDigit(SqrtDigit(SqrtDigit(<<r, n - r * r>>)))[1]

\* np.linalg.norm(q - p) in thousandths.
Norm(p, q) == SqrtMilli(Dist2(p, q))

\* floor(1000 * a / b) for a >= 0 and b > 0, without forming 1000 * a.
DivMilli(a, b) == (a \div b) * 1000 + ((a % b) * 1000) \div b

\* ------------------------------------------------------------------ StrictLEDDetector
\* _calculate_geometry: <<collinearity_error, spacing_ratio, d12, d23>>.  The
\* code projects p2 on the line p1-p3 and takes the norm of p2 - closest_point,
\* which is |(p2 - p1) x (p3 - p1)| / |p3 - p1|.
Degenerate(d) == d < 1000

CrossHalved(p1, p2, p3) ==
    Abs((p2.x - p1.x) * (p3.y - p1.y) - (p2.y - p1.y) * (p3.x - p1.x)) \div 2
Cross(p1, p2, p3) ==
    Abs((p2.x - p1.x) * (p3.y - p1.y) - (p2.y - p1.y) * (p3.x - p1.x))

MetricsZeroSentinel(d12, d23, line_len, cross) ==
    IF Degenerate(d12) \/ Degenerate(d23) THEN <<0, 1000, 0, 0>>
    ELSE IF Degenerate(line_len) THEN <<0, 1000, 0, 0>>
    ELSE <<DivMilli(cross * 1000, line_len), DivMilli(d12, d23), d12, d23>>
Metrics(d12, d23, line_len, cross) ==
    IF Degenerate(d12) \/ Degenerate(d23) THEN <<Inf, Inf, 0, 0>>
    ELSE IF Degenerate(line_len) THEN <<Inf, Inf, 0, 0>>
    ELSE <<DivMilli(cross * 1000, line_len), DivMilli(d12, d23), d12, d23>>

GeometryOf(p1, p2, p3) ==
    Metrics(Norm(p1, p2), Norm(p2, p3), Norm(p1, p3), Cross(p1, p2, p3))

Geometry(sorted_t) == GeometryOf(sorted_t[1], sorted_t[2], sorted_t[3])

calculate_geometry(triplet) == Geometry(SortByX(triplet))

ValidAnyRatio(g) ==
    /\ ~(g[1] > max_collinearity_error * 1000)
    /\ ~(g[3] < min_led_distance * 1000 \/ g[3] > max_led_distance * 1000)
    /\ ~(g[4] < min_led_distance * 1000 \/ g[4] > max_led_distance * 1000)
Valid(g) ==
    /\ ~(g[1] > max_collinearity_error * 1000)
    /\ ~(g[2] < 1000 - spacing_tolerance \/ g[2] > 1000 + spacing_tolerance)
    /\ ~(g[3] < min_led_distance * 1000 \/ g[3] > max_led_distance * 1000)
    /\ ~(g[4] < min_led_distance * 1000 \/ g[4] > max_led_distance * 1000)

validate_triplet(triplet) == Valid(calculate_geometry(triplet))

\* "score = col_error + abs(spacing_ratio - 1.0) * 10"
ScoreCollinearityOnly(g) == g[1]
Score(g) == g[1] + Abs(g[2] - 1000) * 10

\* itertools.combinations(range(n), 3), in its order (lexicographic).
LexBefore(a, b) ==
    \/ a[1] < b[1]
    \/ a[1] = b[1] /\ a[2] < b[2]
    \/ a[1] = b[1] /\ a[2] = b[2] /\ a[3] < b[3]

RECURSIVE LexOrdered(_)
LexOrdered(S) ==
    IF S = {} THEN <<>>
    ELSE LET m == CHOOSE a \in S : \A b \in S \ {a} : LexBefore(a, b)
         IN  <<m>> \o LexOrdered(S \ {m})

Combinations3(n) ==
    LexOrdered({t \in (1 .. n) \X (1 .. n) \X (1 .. n) : t[1] < t[2] /\ t[2] < t[3]})

\* The loop of _find_best_triplet; best_triplet = None stands for best_score = inf.
Pick(blobs, c) == <<blobs[c[1]], blobs[c[2]], blobs[c[3]]>>

RECURSIVE BestFrom(_, _, _, _, _)
BestFrom(blobs, combos, k, best_triplet, best_score) ==
    IF k > Len(combos) THEN best_triplet
    ELSE IF /\ validate_triplet(Pick(blobs, combos[k]))
            /\ \/ best_triplet = None
               \/ Score(calculate_geometry(Pick(blobs, combos[k]))) < best_score
         THEN BestFrom(blobs, combos, k + 1, Pick(blobs, combos[k]),
                       Score(calculate_geometry(Pick(blobs, combos[k]))))
         ELSE BestFrom(blobs, combos, k + 1, best_triplet, best_score)

find_best_triplet(blobs) ==
    IF Len(blobs) < 3 THEN None
    ELSE BestFrom(blobs, Combinations3(Len(blobs)), 1, None, 0)

\* ------------------------------------------------------------------ KalmanTracker
\* cv2.KalmanFilter(4, 2) with the matrices of __init__.  The two axes do not
\* mix and have the same covariance: errorCovPost is [[a I, b I], [b I, c I]],
\* kept as a (position), b (position-velocity), c (velocity).  Fixed point
\* (thousandths) for OpenCV's float32.
KalmanInit(x, y) ==
    [x |-> x * 1000, y |-> y * 1000, vx |-> 0, vy |-> 0,
     a |-> 1000, b |-> 0, c |-> 1000,
     \* history: the calls of predict and of correct made on this filter
     steps |-> 0, corrections |-> 0]

\* kalman.predict(): statePost = F statePost, errorCovPost = F P F' + Q.
KalmanPredict(k) ==
    [k EXCEPT !.x = k.x + k.vx, !.y = k.y + k.vy,
              !.a = k.a + 2 * k.b + k.c + process_noise * 1000,
              !.b = k.b + k.c,
              !.c = k.c + process_noise * 1000,
              !.steps = k.steps + 1]

\* kalman.correct(z): K = P H' / (H P H' + R), state += K (z - H state), P = (I - K H) P.
KalmanCorrect(k, zx, zy) ==
    LET s  == k.a + measurement_noise * 1000
        k1 == (k.a * 1000) \div s
        k2 == (k.b * 1000) \div s
        ix == zx * 1000 - k.x
        iy == zy * 1000 - k.y
    IN  [k EXCEPT !.x  = k.x + (k1 * ix) \div 1000,
                  !.y  = k.y + (k1 * iy) \div 1000,
                  !.vx = k.vx + (k2 * ix) \div 1000,
                  !.vy = k.vy + (k2 * iy) \div 1000,
                  !.a  = k.a - (k1 * k.a) \div 1000,
                  !.b  = k.b - (k1 * k.b) \div 1000,
                  !.c  = k.c - (k2 * k.b) \div 1000,
                  !.corrections = k.corrections + 1]

\* KalmanTracker.update
KalmanUpdate(k, x, y) == KalmanCorrect(KalmanPredict(k), x, y)

\* KalmanTracker.predict_only
predict_only(k) == KalmanPredict(k)

\* "return False, [], float('inf'), float('inf')"
NoPatternZero ==
    [called |-> TRUE, raised |-> FALSE, success |-> FALSE, leds |-> <<>>,
     geometry_error |-> 0, spacing_ratio |-> 1000]
NoPattern ==
    [called |-> TRUE, raised |-> FALSE, success |-> FALSE, leds |-> <<>>,
     geometry_error |-> Inf, spacing_ratio |-> Inf]

\* The filter of slot i after the frame: created from the raw measurement, or
\* updated with it.
SmoothedAnew(trk, i, p) == KalmanInit(p.x, p.y)
Smoothed(trk, i, p) ==
    IF i \notin DOMAIN trk THEN KalmanInit(p.x, p.y) ELSE KalmanUpdate(trk[i], p.x, p.y)

Detection(k, i, conf) == [x |-> k.x, y |-> k.y, confidence |-> conf, led_id |-> i]

Leds(trk, sorted_triplet) ==
    [n \in 1 .. Len(sorted_triplet) |->
        Detection(Smoothed(trk, n - 1, sorted_triplet[n]), n - 1, sorted_triplet[n].conf)]

Found(trk, count, triplet, sorted_triplet, g, leds) ==
    [ret |-> [called |-> TRUE, raised |-> FALSE, success |-> TRUE, leds |-> leds,
              geometry_error |-> g[1], spacing_ratio |-> g[2]],
     trackers |-> [i \in DOMAIN trk \cup (0 .. (Len(sorted_triplet) - 1)) |->
                      IF i < Len(sorted_triplet)
                      THEN Smoothed(trk, i, sorted_triplet[i + 1]) ELSE trk[i]],
     frame_count |-> count + 1,
     last_valid_detection |-> leds, triplet |-> triplet]

Searched(trk, count, last_valid, triplet) ==
    IF triplet = None
    THEN [ret |-> NoPattern, trackers |-> trk, frame_count |-> count + 1,
          last_valid_detection |-> last_valid, triplet |-> None]
    ELSE Found(trk, count, triplet, SortByX(triplet), calculate_geometry(triplet),
               Leds(trk, SortByX(triplet)))

\* StrictLEDDetector.detect on the blobs of a frame: the value returned and the
\* detector's fields after the call.  LEDDetection.x and .y are in thousandths.
strict_detect(trk, count, last_valid, blobs) ==
    Searched(trk, count, last_valid, find_best_triplet(blobs))

\* ------------------------------------------------------------------ extractors
\* What an extractor makes of one image region that OpenCV reports with the
\* measures m: its area, its bounding box and its mean gray level (0 .. 255).
\* Confidences are rounded to the hundredth.
Least(a, b) == IF a < b THEN a ELSE b

\* "min(1.0, area / bbox_area) if bbox_area > 0 else 0.5"
BoxConfidence(area, width, height) ==
    IF width * height > 0 THEN Least(100, RoundDiv(100 * area, width * height)) ELSE 50

\* "min(1.0, region_mean / 200)"
MeanConfidenceUncapped(mean) == RoundDiv(100 * mean, 200)
MeanConfidence(mean) == Least(100, RoundDiv(100 * mean, 200))

\* "mean_intensity / 255.0"
BlobConfidence(mean_intensity) == RoundDiv(100 * mean_intensity, 255)

Found1(m, conf) == <<[x |-> m.x, y |-> m.y, conf |-> conf]>>

\* _detect_via_high_threshold and _detect_via_adaptive_threshold
detect_via_threshold(m) ==
    IF min_led_area < m.area /\ m.area < max_led_area
    THEN Found1(m, BoxConfidence(m.area, m.width, m.height))
    ELSE <<>>

\* _detect_via_hough and _detect_via_contours
detect_via_mean(m) ==
    IF min_led_area < m.area /\ m.area < max_led_area /\ MeanConfidence(m.mean) > 30
    THEN Found1(m, MeanConfidence(m.mean))
    ELSE <<>>

find_bright_blobs(m) ==
    IF min_blob_area < m.area /\ m.area < max_blob_area
    THEN Found1(m, BlobConfidence(m.mean))
    ELSE <<>>

Extracted(m) ==
    IF m.method \in {"high_threshold", "adaptive_threshold"} THEN detect_via_threshold(m)
    ELSE IF m.method \in {"hough", "contours"} THEN detect_via_mean(m)
    ELSE find_bright_blobs(m)

\* Regions: a component has at most as many pixels as its bounding box.
Measures ==
    {m \in [method : {"high_threshold", "adaptive_threshold", "hough", "contours", "blobs"},
            x : {320}, y : {240},
            area : {20, 21, 30, 31, 90, 299, 300, 499, 500},
            width : {3, 10, 25}, height : {7, 10, 20},
            mean : {0, 59, 60, 61, 128, 200, 230, 255}] :
        m.area <= m.width * m.height}

\* ------------------------------------------------------------------ frames
\* A frame shows a rigid pattern of three markers m = 0, 1, 2 in one of a few
\* poses <<x0, y0, dx, dy>> (marker m at (x0 + m dx, y0 + m dy)), some of them
\* possibly hidden.  A noisy frame has, besides, a bright spot that is no marker,
\* and more than one extractor answering for the same marker.
Markers == 0 .. 2

Poses ==
    { <<100, 300, 100, 0>>,    \* (100,300) (200,300) (300,300)
      <<110, 295, 100, 0>>,    \* the same moved by (10, -5)
      <<500, 300, 100, 0>>,    \* a jump of more than max_jump_dist
      <<200, 200, 5, 100>>,    \* nearly vertical
      <<210, 200, -5, 100>>,   \* nearly vertical, leaning the other way
      <<60, 300, 40, 0>> }     \* farther from the camera: spacing 40

Visibility == { {0, 1, 2}, {0, 1}, {2}, {} }

Scene(pose, visible) ==
    [m \in visible |-> [x |-> pose[1] + m * pose[3], y |-> pose[2] + m * pose[4]]]

Scenes == {Scene(pose, visible) : pose \in Poses, visible \in Visibility}

MarkerConf ==
    <<BoxConfidence(90, 10, 10), BoxConfidence(92, 10, 10), BoxConfidence(88, 10, 10)>>
Spot == [x |-> 640, y |-> 60, conf |-> MeanConfidence(70)]

Candidate(scene, m) == [x |-> scene[m].x, y |-> scene[m].y, conf |-> MarkerConf[m + 1]]

SeenMarkers(scene) ==
    LET order == Ascending(DOMAIN scene)
    IN  [k \in 1 .. Len(order) |-> Candidate(scene, order[k])]

\* [det1, det2, det3, det4] of RobustLEDDetector.detect for a frame.
Extractors(scene, noisy) ==
    LET det1 == SeenMarkers(scene)
        last == IF DOMAIN scene = {} THEN <<>>
                ELSE LET m == CHOOSE a \in DOMAIN scene : \A b \in DOMAIN scene : b <= a
                     IN  <<[x |-> scene[m].x + 6, y |-> scene[m].y + 4,
                            conf |-> MeanConfidence(230)]>>
    IN  IF noisy THEN <<det1, det1, last, <<Spot>>>> ELSE <<det1, <<>>, <<>>, <<>>>>

\* The blobs of StrictLEDDetector._find_bright_blobs for a frame.
Blobs(scene, noisy) ==
    IF noisy THEN SeenMarkers(scene) \o <<Spot>> ELSE SeenMarkers(scene)

\* ------------------------------------------------------------------ the markers behind the frames
\* A frame in which the detections are the three markers and nothing else.
Clean(scene, noisy) == DOMAIN scene = Markers /\ ~noisy

\* From one clean frame to the next every marker moves less than max_jump_dist
\* and stays closer to its own previous position than to any other marker's.
Steady(prev, scene) ==
    \A m \in Markers :
        /\ Dist2(prev[m], scene[m]) < max_jump_dist * max_jump_dist
        /\ \A o \in Markers \ {m} : Dist2(prev[m], scene[m]) < Dist2(prev[o], scene[m])

\* The id returned for marker m of a clean frame.
MarkerId(scene, m, r) ==
    r.led_ids[CHOOSE k \in 1 .. Len(r.leds) :
                  r.leds[k].x = scene[m].x /\ r.leds[k].y = scene[m].y]

NoTruth == [ok |-> FALSE, first |-> <<>>, prev |-> <<>>]

\* truth.ok: every frame so far was clean and every move steady; then
\* truth.first[m] is the id marker m received on the first frame.
NextTruth(scene, noisy, r) ==
    IF r.raised THEN NoTruth
    ELSE IF frame_count = 0
    THEN IF Clean(scene, noisy)
         THEN [ok |-> TRUE, first |-> [m \in Markers |-> MarkerId(scene, m, r)],
               prev |-> scene]
         ELSE NoTruth
    ELSE IF truth.ok /\ Clean(scene, noisy) /\ Steady(truth.prev, scene)
         THEN [truth EXCEPT !.prev = scene]
         ELSE NoTruth

\* ------------------------------------------------------------------ triplets
\* Arguments of _calculate_geometry and _validate_triplet: three blobs in each of
\* the 6 orders of the input list.
Point(x, y) == [x |-> x, y |-> y, conf |-> 90]

Orders ==
    { <<1, 2, 3>>, <<1, 3, 2>>, <<2, 1, 3>>, <<2, 3, 1>>, <<3, 1, 2>>, <<3, 2, 1>> }

Reordered(t, o) == <<t[o[1]], t[o[2]], t[o[3]]>>

\* Three points on a line, equally spaced by the step <<dx, dy>>.
Steps ==
    { <<50, 0>>, <<100, 0>>, <<400, 0>>, <<0, 50>>, <<0, 100>>, <<0, 400>>,
      <<30, 40>>, <<40, -30>>, <<240, 320>>, <<100, 1>>, <<1, 100>>,
      <<49, 0>>, <<401, 0>>, <<3, 4>>, <<0, 49>> }

OnLine(s) == <<Point(400, 350), Point(400 + s[1], 350 + s[2]),
               Point(400 + 2 * s[1], 350 + 2 * s[2])>>

\* p1 = (0, 0), p3 = (200, 0) and p2 = (100 + e, D): off the line by D, off the
\* middle by e.
Skews == {-6, -5, 0, 4, 5}

Bent(e, D) == <<Point(0, 0), Point(100 + e, D), Point(200, 0)>>

\* Triplets with two blobs at the same place, with all three at the same place,
\* and with blobs exactly 1 px apart.
Coincident ==
    { <<Point(400, 350), Point(400, 350), Point(500, 350)>>,
      <<Point(400, 350), Point(500, 350), Point(500, 350)>>,
      <<Point(400, 350), Point(400, 450), Point(400, 350)>>,
      <<Point(400, 350), Point(400, 350), Point(400, 350)>>,
      <<Point(400, 350), Point(401, 350), Point(402, 350)>> }

Triplets ==
    {Reordered(t, o) : t \in {OnLine(s) : s \in Steps}
                             \cup {Bent(e, D) : e \in Skews, D \in 0 .. MaxOffset}
                             \cup Coincident,
                       o \in Orders}

\* ------------------------------------------------------------------ candidate lists
\* Arguments of _merge_detections: [det1, det2, det3, det4].  The first extractor
\* reports up to four bright components; the other three report one of them
\* again, 15, 20 and 25 px from where the first extractor has it.
Sites == << <<100, 100>>, <<300, 100>>, <<500, 100>>, <<700, 100>>,
            <<109, 112>>, <<112, 116>>, <<115, 120>> >>

\* A confidence in hundredths, 0 for a candidate that is not reported.
Reported == {0, 40, 100}

ListOf(confs, from, to) ==
    LET seen == Ascending({k \in from .. to : confs[k] # 0})
    IN  [n \in 1 .. Len(seen) |->
            [x |-> Sites[seen[n]][1], y |-> Sites[seen[n]][2], conf |-> confs[seen[n]]]]

CandidateLists ==
    {<<ListOf(confs, 1, 4), ListOf(confs, 5, 5), ListOf(confs, 6, 6), ListOf(confs, 7, 7)>> :
        confs \in [1 .. Len(Sites) -> Reported]}

\* ------------------------------------------------------------------ VideoProcessor.calculate_error_statistics
\* led_positions[led_id]: the (x, y) of every detection that a successful result
\* pairs with led_id, in the order of the results.
PairsOf(result, led_id) ==
    LET n    == Least(Len(result.leds), Len(result.led_ids))
        hits == Ascending({k \in 1 .. n : result.led_ids[k] = led_id /\ led_id < 3})
    IN  [j \in 1 .. Len(hits) |-> <<result.leds[hits[j]].x, result.leds[hits[j]].y>>]

RECURSIVE led_positions(_, _)
led_positions(results, led_id) ==
    IF results = <<>> THEN <<>>
    ELSE (IF Head(results).success THEN PairsOf(Head(results), led_id) ELSE <<>>)
         \o led_positions(Tail(results), led_id)

\* Where s[i] stands in the ascending order of s (equal values in input order).
Rank(s, i) ==
    1 + Cardinality({j \in 1 .. Len(s) : s[j] < s[i] \/ (s[j] = s[i] /\ j < i)})

\* The sort inside np.percentile.
SortAscending(s) ==
    [k \in 1 .. Len(s) |-> s[CHOOSE i \in 1 .. Len(s) : Rank(s, i) = k]]

\* np.percentile(v, 25 q) for q = 1 and q = 3, times 4: linear interpolation
\* between the two order statistics around the position (n - 1) q / 4, which is
\* exact in quarters of a pixel.
Percentile4(ordered, q) ==
    LET h == (Len(ordered) - 1) * q
        i == h \div 4
        r == h % 4
    IN  IF r = 0 THEN 4 * ordered[i + 1]
        ELSE 4 * ordered[i + 1] + r * (ordered[i + 2] - ordered[i + 1])

\* <<q1 - 3 iqr, q3 + 3 iqr>>, times 4.
FencesTukey(q1, q3) == <<q1 - (3 * (q3 - q1)) \div 2, q3 + (3 * (q3 - q1)) \div 2>>
Fences(q1, q3) == <<q1 - 3 * (q3 - q1), q3 + 3 * (q3 - q1)>>

FencesOf(ordered) == Fences(Percentile4(ordered, 1), Percentile4(ordered, 3))

Axis(positions, c) == [k \in 1 .. Len(positions) |-> positions[k][c]]

Inside(v, fences) == 4 * v >= fences[1] /\ 4 * v <= fences[2]

\* positions[valid_mask]
Masked(positions, fences_x, fences_y) ==
    LET valid == Ascending({k \in 1 .. Len(positions) :
                               Inside(positions[k][1], fences_x) /\ Inside(positions[k][2], fences_y)})
    IN  [j \in 1 .. Len(valid) |-> positions[valid[j]]]

led_positions_filtered(positions) ==
    IF positions = <<>> THEN <<>>
    ELSE Masked(positions, FencesOf(SortAscending(Axis(positions, 1))),
                FencesOf(SortAscending(Axis(positions, 2))))

\* stats['leds'][led_idx].  Means are in thousandths of a pixel; the deviations
\* (std_deviation, std_x, std_y) are functions of the same positions and are
\* not part of the record.
LedStats(positions, xs, ys) ==
    IF positions = <<>>
    THEN [positions |-> <<>>, detected_frames |-> 0, mean_position |-> None]
    ELSE [positions |-> positions,
          detected_frames |-> Len(positions),
          mean_position |-> <<DivMilli(SumSeq(xs), Len(xs)), DivMilli(SumSeq(ys), Len(ys))>>,
          min_x |-> xs[1], max_x |-> xs[Len(xs)], range_x |-> xs[Len(xs)] - xs[1],
          min_y |-> ys[1], max_y |-> ys[Len(ys)], range_y |-> ys[Len(ys)] - ys[1]]

StatsOf(filtered) ==
    LedStats(filtered, SortAscending(Axis(filtered, 1)), SortAscending(Axis(filtered, 2)))

\* "if not self.results: return {}"
calculate_error_statistics(results, count) ==
    IF results = <<>> THEN [empty |-> TRUE]
    ELSE [empty |-> FALSE,
          total_frames |-> count,
          successful_frames |-> Cardinality({k \in 1 .. Len(results) : results[k].success}),
          leds |-> [i \in Ids |-> StatsOf(led_positions_filtered(led_positions(results, i)))]]

\* ------------------------------------------------------------------ result lists
\* self.results as the statistics find it.  A successful result carries three
\* detections with the ids 0, 1, 2; in these lists the detections of 1 and 2 do
\* not move.
Sample(x, y) ==
    [success |-> TRUE, led_ids |-> <<0, 1, 2>>,
     leds |-> <<[x |-> x, y |-> y], [x |-> 600, y |-> 400], [x |-> 700, y |-> 400]>>]

Failed == [success |-> FALSE, led_ids |-> <<0>>, leds |-> <<[x |-> 500, y |-> 400]>>]

Outlier == Sample(5000, 5000)

FrameResults ==
    {Sample(500, 400), Sample(501, 400), Sample(500, 402), Sample(520, 400), Outlier, Failed}

ShortResults ==
    UNION {[1 .. n -> FrameResults] : n \in 0 .. MaxResults}

\* 100 samples near (500, 400), spread over 11 columns and 5 rows.
Spread == [j \in 1 .. 100 |-> Sample(495 + (j % 11), 398 + (j % 5))]

\* 100 samples near (500, 400), all but one in the same place.
Still == [j \in 1 .. 100 |-> IF j = 30 THEN Sample(501, 400) ELSE Sample(500, 400)]

\* The outlier as the 51st of 101 results.
Injected(cluster) == SubSeq(cluster, 1, 50) \o <<Outlier>> \o SubSeq(cluster, 51, 100)

LongResults == {Injected(Spread), Injected(Still)}

\* ------------------------------------------------------------------ VideoProcessor.process
\* A video file: its frames, the frame rate OpenCV reports for it (0 when the
\* container does not tell) and whether VideoCapture can open it.
Shots ==
    { <<Scene(<<100, 300, 100, 0>>, {0, 1, 2}), FALSE>>,
      <<Scene(<<110, 295, 100, 0>>, {0, 1, 2}), TRUE>>,
      <<Scene(<<100, 300, 100, 0>>, {0, 1}), FALSE>> }

Films == UNION {[1 .. n -> Shots] : n \in 0 .. MaxVideo}

Files ==
    {[frames |-> f, fps |-> 30, opened |-> TRUE] : f \in Films}
    \cup {[frames |-> f, fps |-> 0, opened |-> TRUE] : f \in [1 .. 1 -> Shots]}
    \cup {[frames |-> <<>>, fps |-> 0, opened |-> FALSE]}

\* The processor as constructed (main constructs it, calls process once and
\* saves the results).  max_frames = 0 stands for None.
NewVideo(file) ==
    [file |-> file, pc |-> "new", max_frames |-> 0, display |-> FALSE,
     read |-> 0, frame_idx |-> 0, successful_detections |-> 0,
     results |-> <<>>, frame_count |-> 0]

NoVideo == NewVideo([frames |-> <<>>, fps |-> 0, opened |-> FALSE])

\* "timestamp = frame_idx / fps", in thousandths of a second.
Timestamp(frame_idx, fps) == DivMilli(frame_idx, fps)

\* "frame_idx += 1"
SameIndex(frame_idx) == frame_idx
NextIndex(frame_idx) == frame_idx + 1

\* The FrameResult of led_detector_final.py.  shot is the number of frames read
\* from the file before the one the result is of.
RobustResult(v, r) ==
    [frame_idx |-> v.frame_idx, timestamp |-> Timestamp(v.frame_idx, v.file.fps),
     leds_detected |-> r.leds, success |-> r.success, num_leds |-> Len(r.leds),
     led_ids |-> r.led_ids, shot |-> v.read]

\* The FrameResult of led_detector_estricto.py.
StrictResult(v, r) ==
    [frame_idx |-> v.frame_idx, timestamp |-> Timestamp(v.frame_idx, v.file.fps),
     leds |-> r.leds, success |-> r.success,
     geometry_error |-> IF r.success THEN r.geometry_error ELSE Inf,
     spacing_ratio |-> IF r.success THEN r.spacing_ratio ELSE Inf, shot |-> v.read]

\* "if not ret: break" and "if max_frames and frame_idx >= max_frames: break"
Exhausted(v) ==
    \/ v.read >= Len(v.file.frames)
    \/ v.max_frames # 0 /\ v.frame_idx >= v.max_frames

\* After the loop of led_detector_final.py: self.frame_count = frame_idx, and the
\* rate printed divides by it.
RobustEnd(v) ==
    [v EXCEPT !.frame_count = v.frame_idx,
              !.pc = IF v.frame_idx = 0 THEN "raised" ELSE "returned"]

\* After the loop of led_detector_estricto.py: "rate = ... if total > 0 else 0".
StrictEnd(v) == [v EXCEPT !.pc = "returned"]

\* The rest of the loop body once detect has returned r for the frame.
Recorded(v, result, quit) ==
    LET w == [v EXCEPT !.results = Append(v.results, result),
                       !.read = v.read + 1,
                       !.successful_detections =
                           IF result.success THEN v.successful_detections + 1
                           ELSE v.successful_detections]
    IN  IF quit THEN RobustEnd(w)
        ELSE [w EXCEPT !.frame_idx = NextIndex(v.frame_idx)]

\* A frame was read and the division frame_idx / fps raises, or detect raises.
Raised(v) == [v EXCEPT !.read = v.read + 1, !.pc = "raised"]

\* ------------------------------------------------------------------ noisy trajectories
\* Measurements given to one KalmanTracker: a point that starts at x = 100 and
\* moves by velocity pixels per frame along x, measured with an error of +sigma
\* or -sigma pixels.  The signs follow a pattern whose mean over a period is
\* zero, so that the mean square of the error is sigma squared.  y is constant.
Velocities == {0, 1, 10}

Sigmas == {1, 2}

NoisePatterns == { <<1, -1>>, <<-1, 1>>, <<1, 1, -1, -1>>, <<1, -1, -1, 1>> }


\* Sample k (from 0) of trajectory c: where the point is, and where it is measured.
TruePosition(c, k) == 100 + c.velocity * k

Noise(c, k) == c.sigma * c.pattern[(k % Len(c.pattern)) + 1]

Measured(c, k) == [x |-> TruePosition(c, k) + Noise(c, k), y |-> 240, conf |-> 90]

\* Sums over the samples fed so far, in hundredths of a pixel: of the error of
\* the smoothed x and of the error of the measured x, and of their squares.
NoSums == [n |-> 0, smoothed |-> 0, smoothed2 |-> 0, raw |-> 0, raw2 |-> 0]

Centi(milli) == IF milli < 0 THEN -((-milli) \div 10) ELSE milli \div 10

SumsWith(sums, smoothed_err, raw_err) ==
    [n |-> sums.n + 1,
     smoothed  |-> sums.smoothed + smoothed_err,
     smoothed2 |-> sums.smoothed2 + smoothed_err * smoothed_err,
     raw  |-> sums.raw + raw_err,
     raw2 |-> sums.raw2 + raw_err * raw_err]

\* n * n times the variance (mean of the squares minus the square of the mean).
ScaledVariance(n, sum, sum2) == n * sum2 - sum * sum

Trajectories ==
    [velocity : Velocities, sigma : Sigmas, pattern : NoisePatterns, sums : {NoSums}]

\* ------------------------------------------------------------------ blob lists
\* Arguments of _find_best_triplet: up to MaxBlobs of the blobs below, in the
\* order of the list or in the opposite order.  Five blobs lie on the line
\* y = 300, 100 px apart; one is 3 px off the line, one 3 px off the middle, and
\* one is reported twice.
BlobSites ==
    << Point(100, 300), Point(200, 300), Point(300, 300), Point(400, 300),
       Point(500, 300), Point(200, 303), Point(303, 300), Point(100, 300) >>

Chosen(S, backwards) ==
    LET order == Ascending(S)
    IN  [n \in 1 .. Len(order) |->
            BlobSites[order[IF backwards THEN Len(order) + 1 - n ELSE n]]]

BlobLists ==
    {Chosen(S, backwards) : S \in {T \in SUBSET (1 .. Len(BlobSites)) :
                                       Cardinality(T) <= MaxBlobs},
                            backwards \in BOOLEAN}

\* ------------------------------------------------------------------ marker frames
\* Arguments of VideoMarker._assign_led_ids: the detections of a frame, up to
\* MaxDetections of the points below, as _detect_leds lists them (by component
\* label: here by row of the list).  Four points are 100 px apart on a row, one
\* is 10 px from the third, one is far from all.
MarkerSites ==
    << Point(100, 300), Point(200, 300), Point(300, 300), Point(400, 300),
       Point(310, 300), Point(700, 300) >>

MarkerFrames ==
    {[n \in 1 .. Cardinality(S) |-> MarkerSites[Ascending(S)[n]]] :
        S \in {T \in SUBSET (1 .. Len(MarkerSites)) : Cardinality(T) <= MaxDetections}}

\* ------------------------------------------------------------------ the programs
\* The detectors start as constructed.  A run of one of the pure functions
\* starts with the arguments of the call.
Init ==
    /\ last_positions = None
    /\ led_trajectory = [i \in Ids |-> <<>>]
    /\ frame_count = 0
    /\ trackers = <<>>
    /\ last_valid_detection = None
    /\ ret = [called |-> FALSE, raised |-> FALSE]
    /\ truth = NoTruth
    /\ \/ /\ variant \in {"robust", "strict"}
          /\ call = [scene |-> <<>>, noisy |-> FALSE, successes |-> 0]
          /\ video = NoVideo
       \/ /\ variant \in {"robust_process", "strict_process"}
          /\ call = [scene |-> <<>>, noisy |-> FALSE]
          /\ video \in {NewVideo(file) : file \in Files}
       \/ /\ variant = "geometry"
          /\ video = NoVideo
          /\ call \in {[triplet |-> t] : t \in Triplets}
       \/ /\ variant = "extract"
          /\ video = NoVideo
          /\ call \in {[region |-> m] : m \in Measures}
       \/ /\ variant = "statistics"
          /\ video = NoVideo
          /\ call \in {[results |-> rs, frame_count |-> Len(rs)] :
                           rs \in ShortResults \cup LongResults}
       \/ /\ variant = "merge"
          /\ video = NoVideo
          /\ call \in {[detections_list |-> l] : l \in CandidateLists}
       \/ /\ variant = "kalman"
          /\ video = NoVideo
          /\ call \in Trajectories
       \/ /\ variant = "best"
          /\ video = NoVideo
          /\ call \in {[blobs |-> l] : l \in BlobLists}
       \/ /\ variant = "marker"
          /\ video = NoVideo
          /\ call = [detections |-> <<>>]

\* One frame through RobustLEDDetector.detect.
RobustDetect(scene, noisy) ==
    /\ variant = "robust"
    /\ frame_count < MaxFrames
    /\ ~ret.raised
    /\ \E r \in {robust_detect(last_positions, led_trajectory, frame_count,
                              Extractors(scene, noisy))} :
           /\ ret' = r.ret
           /\ last_positions' = r.last_positions
           /\ led_trajectory' = r.led_trajectory
           /\ frame_count' = r.frame_count
           /\ call' = [scene |-> scene, noisy |-> noisy,
                       merged |-> r.merged,
                       sorted |-> r.sorted, old_positions |-> last_positions,
                       old_trajectory |-> led_trajectory,
                       branch |-> r.branch, assignment |-> r.assignment,
                       filled |-> r.filled,
                       \* history: the frames returned with success so far
                       successes |-> IF ~r.ret.raised /\ r.ret.success
                                     THEN call.successes + 1 ELSE call.successes]
           /\ truth' = NextTruth(scene, noisy, r.ret)
    /\ UNCHANGED <<variant, trackers, last_valid_detection, video>>

\* One frame through StrictLEDDetector.detect.
StrictDetect(scene, noisy) ==
    /\ variant = "strict"
    /\ frame_count < MaxFrames
    /\ \E r \in {strict_detect(trackers, frame_count, last_valid_detection,
                              Blobs(scene, noisy))} :
           /\ ret' = r.ret
           /\ trackers' = r.trackers
           /\ frame_count' = r.frame_count
           /\ last_valid_detection' = r.last_valid_detection
           /\ call' = [scene |-> scene, noisy |-> noisy,
                       triplet |-> r.triplet, old_trackers |-> trackers]
    /\ UNCHANGED <<variant, last_positions, led_trajectory, truth, video>>

\* One call of _validate_triplet, and of the _calculate_geometry it rests on.
ValidateTriplet ==
    /\ variant = "geometry"
    /\ ~ret.called
    /\ ret' = [called |-> TRUE, raised |-> FALSE,
               geometry |-> calculate_geometry(call.triplet),
               valid |-> validate_triplet(call.triplet)]
    /\ UNCHANGED <<variant, last_positions, led_trajectory, frame_count, trackers,
                   last_valid_detection, call, truth, video>>

\* One call of _merge_detections, and the cut to expected_leds that detect makes
\* of its result.
MergeDetections ==
    /\ variant = "merge"
    /\ ~ret.called
    /\ \E merged \in {merge_detections(call.detections_list)} :
           ret' = [called |-> TRUE, raised |-> FALSE,
                   merged |-> merged, kept |-> Cap(merged),
                   \* all_detections after its sort, as the loop enumerates it
                   order |-> SortByConf(Flatten(call.detections_list))]
    /\ UNCHANGED <<variant, last_positions, led_trajectory, frame_count, trackers,
                   last_valid_detection, call, truth, video>>

\* One image region through the extractor call.region.method.
Extract ==
    /\ variant = "extract"
    /\ ~ret.called
    /\ ret' = [called |-> TRUE, raised |-> FALSE, candidates |-> Extracted(call.region)]
    /\ UNCHANGED <<variant, last_positions, led_trajectory, frame_count, trackers,
                   last_valid_detection, call, truth, video>>

\* One call of VideoProcessor.calculate_error_statistics.
CalculateErrorStatistics ==
    /\ variant = "statistics"
    /\ ~ret.called
    /\ ret' = [called |-> TRUE, raised |-> FALSE,
               stats |-> calculate_error_statistics(call.results, call.frame_count)]
    /\ UNCHANGED <<variant, last_positions, led_trajectory, frame_count, trackers,
                   last_valid_detection, call, truth, video>>

\* The call of process up to its loop: the file is opened.
Process(max_frames, display) ==
    /\ variant \in {"robust_process", "strict_process"}
    /\ video.pc = "new"
    /\ variant = "strict_process" => ~display
    /\ video' = IF video.file.opened
                THEN [video EXCEPT !.pc = "loop", !.max_frames = max_frames,
                                   !.display = display]
                ELSE [video EXCEPT !.pc = "raised"]
    /\ UNCHANGED <<variant, last_positions, led_trajectory, frame_count, trackers,
                   last_valid_detection, ret, call, truth>>

\* One turn of the loop of process in led_detector_final.py, with what follows
\* the loop when it is left; quit: the key read by waitKey is 'q'.
RobustTurn(quit) ==
    /\ variant = "robust_process"
    /\ video.pc = "loop"
    /\ quit => video.display /\ ~Exhausted(video) /\ video.file.fps # 0
    /\ IF Exhausted(video)
       THEN /\ video' = RobustEnd(video)
            /\ UNCHANGED <<last_positions, led_trajectory, frame_count, ret, call>>
       ELSE IF video.file.fps = 0
       THEN /\ video' = Raised(video)
            /\ UNCHANGED <<last_positions, led_trajectory, frame_count, ret, call>>
       ELSE \E shot \in {video.file.frames[video.read + 1]} :
            \E r \in {robust_detect(last_positions, led_trajectory, frame_count,
                                    Extractors(shot[1], shot[2]))} :
                /\ ret' = r.ret
                /\ last_positions' = r.last_positions
                /\ led_trajectory' = r.led_trajectory
                /\ frame_count' = r.frame_count
                /\ call' = [scene |-> shot[1], noisy |-> shot[2]]
                /\ video' = IF r.ret.raised THEN Raised(video)
                            ELSE Recorded(video, RobustResult(video, r.ret), quit)
    /\ UNCHANGED <<variant, trackers, last_valid_detection, truth>>

\* One turn of the loop of process in led_detector_estricto.py.
StrictTurn ==
    /\ variant = "strict_process"
    /\ video.pc = "loop"
    /\ IF Exhausted(video)
       THEN /\ video' = StrictEnd(video)
            /\ UNCHANGED <<trackers, frame_count, last_valid_detection, ret, call>>
       ELSE \E shot \in {video.file.frames[video.read + 1]} :
            \E r \in {strict_detect(trackers, frame_count, last_valid_detection,
                                    Blobs(shot[1], shot[2]))} :
                /\ ret' = r.ret
                /\ trackers' = r.trackers
                /\ frame_count' = r.frame_count
                /\ last_valid_detection' = r.last_valid_detection
                /\ call' = [scene |-> shot[1], noisy |-> shot[2]]
                /\ video' = IF video.file.fps = 0 THEN Raised(video)
                            ELSE Recorded(video, StrictResult(video, r.ret), FALSE)
    /\ UNCHANGED <<variant, last_positions, led_trajectory, truth>>

\* One measurement of the trajectory through the KalmanTracker of slot 0, the
\* way detect uses it: the first measurement creates the filter and is reported
\* as it is, every later one goes through update.
KalmanFeed ==
    /\ variant = "kalman"
    /\ call.sums.n < MaxSamples
    /\ \E k \in {Smoothed(trackers, 0, Measured(call, call.sums.n))} :
           /\ trackers' = (0 :> k)
           /\ ret' = [called |-> TRUE, raised |-> FALSE, smoothed_x |-> k.x]
           /\ call' = [call EXCEPT !.sums =
                          SumsWith(call.sums,
                                   Centi(k.x - 1000 * TruePosition(call, call.sums.n)),
                                   100 * Noise(call, call.sums.n))]
    /\ UNCHANGED <<variant, last_positions, led_trajectory, frame_count,
                   last_valid_detection, truth, video>>

\* One call of _find_best_triplet.
FindBestTriplet ==
    /\ variant = "best"
    /\ ~ret.called
    /\ ret' = [called |-> TRUE, raised |-> FALSE,
               triplet |-> find_best_triplet(call.blobs)]
    /\ UNCHANGED <<variant, last_positions, led_trajectory, frame_count, trackers,
                   last_valid_detection, call, truth, video>>

\* One frame through VideoMarker._assign_led_ids.
AssignLedIds(detections) ==
    /\ variant = "marker"
    /\ frame_count < MaxFrames
    /\ \E r \in {assign_led_ids(last_positions, detections)} :
           /\ ret' = [called |-> TRUE, raised |-> FALSE, assigned |-> r.assigned]
           /\ last_positions' = r.last_positions
    /\ frame_count' = frame_count + 1
    /\ call' = [detections |-> detections, old_positions |-> last_positions]
    /\ UNCHANGED <<variant, led_trajectory, trackers, last_valid_detection, truth, video>>

Next ==
    \/ \E scene \in Scenes, noisy \in BOOLEAN : RobustDetect(scene, noisy)
    \/ \E scene \in Scenes, noisy \in BOOLEAN : StrictDetect(scene, noisy)
    \/ ValidateTriplet
    \/ MergeDetections
    \/ Extract
    \/ CalculateErrorStatistics
    \/ \E max_frames \in 0 .. 1, display \in BOOLEAN : Process(max_frames, display)
    \/ \E quit \in BOOLEAN : RobustTurn(quit)
    \/ StrictTurn
    \/ KalmanFeed
    \/ FindBestTriplet
    \/ \E detections \in MarkerFrames : AssignLedIds(detections)

Spec == Init /\ [][Next]_vars

\* ------------------------------------------------------------------ properties
Robust  == variant = "robust" /\ ret.called
Strict  == variant = "strict" /\ ret.called
TrackedFrame == Robust /\ call.branch = "tracked"
Reach2  == max_jump_dist * max_jump_dist

\* C1: in both detectors, after any sequence of frames, a result returned with
\* success = true carries exactly 3 detections.
C1_SuccessHasThree ==
    ((Robust \/ Strict) /\ ~ret.raised /\ ret.success) => Len(ret.leds) = 3

C1_Witness ==
    Robust /\ ~ret.raised /\ ret.success /\ frame_count >= 2 /\ call.branch = "tracked"

\* C2 (as claimed): in RobustLEDDetector, while every frame carries the 3 markers,
\* every marker moves less than 150 px and stays closer to its own previous
\* position than to any other marker's, each marker is returned with the id it
\* received on the first frame.
C2_StableIdentity ==
    (Robust /\ ~ret.raised /\ truth.ok) =>
        \A m \in Markers : MarkerId(call.scene, m, ret) = truth.first[m]

\* C3: on every 3-point frame after initialization no current point is
\* associated to two previous slots, and the ids returned are a permutation of
\* {0, 1, 2}.
C3_IdsArePermutation ==
    TrackedFrame =>
        /\ \A i, j \in Ids : (i # j /\ call.assignment[i] # -1)
                                 => call.assignment[i] # call.assignment[j]
        /\ ~ret.raised
        /\ Len(ret.led_ids) = 3
        /\ {ret.led_ids[k] : k \in 1 .. 3} = Ids

C3_Witness ==
    /\ TrackedFrame
    /\ call.filled # {}
    /\ \E i \in Ids : call.assignment[i] # -1

\* C4 (as claimed): on a 3-point frame after initialization a point receives its
\* id through the fill-in only when no previous-frame position lies within
\* 150 px of that point.
C4_FillOnlyWhenFarFromAll ==
    TrackedFrame =>
        \A d \in call.filled : \A i \in Ids :
            Dist2(call.old_positions[i + 1], call.sorted[d + 1]) > Reach2

\* C4 (amended): a point receives its id through the fill-in only when every
\* previous-frame position within 150 px of it was associated by the
\* nearest-neighbour step with another current point, one at least as near to
\* that position.
C4_FillOnlyWhenNearSlotsTaken ==
    TrackedFrame =>
        \A d \in call.filled : \A i \in Ids :
            Dist2(call.old_positions[i + 1], call.sorted[d + 1]) <= Reach2
                => /\ call.assignment[i] # -1
                   /\ call.assignment[i] # d
                   /\ Dist2(call.old_positions[i + 1], call.sorted[call.assignment[i] + 1])
                          <= Dist2(call.old_positions[i + 1], call.sorted[d + 1])

C4_Witness ==
    /\ TrackedFrame
    /\ \E d \in call.filled : \E i \in Ids :
           Dist2(call.old_positions[i + 1], call.sorted[d + 1]) <= Reach2

\* C5: the nearest-neighbour step never pairs a slot with a current point that
\* lies farther than 150 px from the slot's stored last position.
C5_NoPairBeyondMaxJump ==
    TrackedFrame =>
        \A i \in Ids : call.assignment[i] # -1 =>
            Dist2(call.old_positions[i + 1], call.sorted[call.assignment[i] + 1]) <= Reach2

C5_Witness ==
    /\ TrackedFrame
    /\ \E i, j \in Ids :
           /\ call.assignment[i] # -1
           /\ call.assignment[j] = -1
           /\ \E d \in call.filled :
                  Dist2(call.old_positions[j + 1], call.sorted[d + 1]) >= 4 * Reach2

\* C6 (as claimed): after initialization, on a frame with only 1 or 2 surviving
\* points, each point within 150 px of a slot's last position is returned with
\* the id of its nearest such slot.
C6_PartialFrameKeepsIds ==
    (Robust /\ ~ret.raised /\ call.old_positions # None /\ Len(call.sorted) \in {1, 2}) =>
        \A k \in 1 .. Len(call.sorted) :
            LET near == {i \in Ids :
                            Dist2(call.old_positions[i + 1], call.sorted[k]) <= Reach2}
            IN  near # {} =>
                    \E i \in near :
                        /\ \A j \in near :
                               Dist2(call.old_positions[i + 1], call.sorted[k])
                                   <= Dist2(call.old_positions[j + 1], call.sorted[k])
                        /\ ret.led_ids[k] = i

\* C7: a frame whose number of surviving points is not 3 leaves last_positions
\* and the three led_trajectory lists unchanged.
C7_PartialFrameKeepsState ==
    [][(variant = "robust" /\ Len(call'.sorted) # 3)
           => UNCHANGED <<last_positions, led_trajectory>>]_vars

C7_Witness ==
    /\ Robust
    /\ Len(call.sorted) \in {1, 2}
    /\ last_positions # None
    /\ last_positions = call.old_positions

\* C8: on a 3-point frame after initialization every point left unmatched by the
\* nearest-neighbour step receives a still-unused id, lower ids going to points
\* farther left (the lowest to the leftmost), and the frame is returned with
\* success = true and without exception, also when all three points are
\* unmatched.
C8_UnmatchedGetUnusedIds ==
    TrackedFrame =>
        /\ ~ret.raised
        /\ ret.success
        /\ call.filled = {d \in 0 .. 2 : \A i \in Ids : call.assignment[i] # d}
        /\ \A d \in call.filled : call.assignment[ret.led_ids[d + 1]] = -1
        /\ \A d, e \in call.filled : d < e => ret.led_ids[d + 1] < ret.led_ids[e + 1]
        /\ \A d \in call.filled :
               (\A e \in call.filled : d <= e)
                   => \A i \in Ids : call.assignment[i] = -1 => ret.led_ids[d + 1] <= i

C8_Witness ==
    /\ TrackedFrame
    /\ ret.success
    /\ call.filled = {0, 1, 2}
    /\ \A i \in Ids : \A k \in 1 .. 3 :
           Dist2(call.old_positions[i + 1], call.sorted[k]) > Reach2

\* C9: on the first frame that yields 3 points the detections are returned in
\* increasing x order with the ids 0, 1, 2 in that order and success = true, in
\* RobustLEDDetector and in StrictLEDDetector.
C9_FirstFrameLeftToRight ==
    /\ (Robust /\ call.branch = "first") =>
           /\ ~ret.raised
           /\ ret.success
           /\ ret.led_ids = <<0, 1, 2>>
           /\ Len(ret.leds) = 3
           /\ \A k \in 1 .. 2 : ret.leds[k].x <= ret.leds[k + 1].x
    /\ (Strict /\ call.old_trackers = <<>> /\ call.triplet # None) =>
           /\ ret.success
           /\ Len(ret.leds) = 3
           /\ \A k \in 1 .. 3 : ret.leds[k].led_id = k - 1
           /\ \A k \in 1 .. 2 : ret.leds[k].x <= ret.leds[k + 1].x

C9_Witness ==
    /\ Robust /\ call.branch = "first"
    /\ ret.success
    /\ [k \in 1 .. 3 |-> <<ret.leds[k].x, ret.leds[k].y>>]
           = <<<<100, 300>>, <<200, 300>>, <<300, 300>>>>

\* C10: on a frame in which no candidate survives extraction (no triplet
\* validates, in the strict detector) detect raises nothing and returns
\* success = false with an empty detection list, the strict detector with
\* geometry_error and spacing_ratio infinite; the detector's tracking state is
\* as before the frame, so the following frames are processed as usual.
C10_EmptyFrameIsData ==
    /\ (Robust /\ call.merged = <<>>) =>
           /\ ~ret.raised
           /\ ~ret.success
           /\ ret.leds = <<>>
           /\ last_positions = call.old_positions
           /\ led_trajectory = call.old_trajectory
    /\ (Strict /\ call.triplet = None) =>
           /\ ~ret.raised
           /\ ~ret.success
           /\ ret.leds = <<>>
           /\ ret.geometry_error = Inf
           /\ ret.spacing_ratio = Inf
           /\ trackers = call.old_trackers

C10_Witness ==
    /\ Strict
    /\ call.triplet = None
    /\ trackers # <<>>
    /\ ~ret.success
    /\ frame_count >= 2

Validated == variant = "geometry" /\ ret.called

EquallySpaced(t) ==
    \E o \in Orders :
        /\ t[o[2]].x - t[o[1]].x = t[o[3]].x - t[o[2]].x
        /\ t[o[2]].y - t[o[1]].y = t[o[3]].y - t[o[2]].y
        /\ Dist2(t[o[1]], t[o[2]]) >= 50 * 50
        /\ Dist2(t[o[1]], t[o[2]]) <= 400 * 400

\* C12 (as claimed): for three distinct points exactly on a line of any
\* orientation, equally spaced with a spacing in [50, 400] px,
\* _calculate_geometry reports collinearity error 0 and spacing ratio 1 and
\* _validate_triplet accepts, in each of the 6 orders of the input list.
C12_LineAcceptedInAnyOrder ==
    (Validated /\ EquallySpaced(call.triplet)) =>
        /\ ret.geometry[1] = 0
        /\ ret.geometry[2] = 1000
        /\ ret.valid

MergedLists == variant = "merge" /\ ret.called

\* C14: an input of two candidates yields exactly one fused point when their
\* distance is below the merge radius of 20 px and exactly two fused points when
\* it is above the radius.
C14_TwoCandidatesMergeLaw ==
    \A all \in {Flatten(IF variant = "merge" THEN call.detections_list ELSE <<>>)} :
        (MergedLists /\ Len(all) = 2) =>
            /\ Dist2(all[1], all[2]) < 20 * 20 => Len(ret.merged) = 1
            /\ Dist2(all[1], all[2]) > 20 * 20 => Len(ret.merged) = 2

C14_Witness ==
    /\ MergedLists
    /\ Len(Flatten(call.detections_list)) = 2
    /\ Dist2(Flatten(call.detections_list)[1], Flatten(call.detections_list)[2]) = 15 * 15
    /\ Len(ret.merged) = 1

\* C15 (as claimed): when fusion yields more than 3 fused points, the 3
\* detections kept are the 3 fused points with the highest confidence among all
\* fused points of the frame.
C15_KeepsHighestConfidence ==
    (MergedLists /\ Len(ret.merged) > 3) =>
        /\ Len(ret.kept) = 3
        /\ \A k \in 1 .. 3 : \E j \in 1 .. Len(ret.merged) : ret.kept[k] = ret.merged[j]
        /\ \A j \in 1 .. Len(ret.merged) :
               (\A k \in 1 .. 3 : ret.kept[k] # ret.merged[j])
                   => \A k \in 1 .. 3 : ret.kept[k].conf >= ret.merged[j].conf

\* A confidence of [0, 1], in hundredths.
Unit(conf) == 0 <= conf /\ conf <= 100

\* C16: every confidence produced in a frame lies in [0,1]: that of each
\* candidate returned by the four extractors of RobustLEDDetector and by
\* StrictLEDDetector._find_bright_blobs, of each fused point returned by
\* _merge_detections, and of each detection returned by detect.
C16_ConfidenceInUnitInterval ==
    /\ (variant = "extract" /\ ret.called) =>
           \A k \in 1 .. Len(ret.candidates) : Unit(ret.candidates[k].conf)
    /\ MergedLists => \A k \in 1 .. Len(ret.merged) : Unit(ret.merged[k].conf)
    /\ (Robust /\ ~ret.raised) =>
           /\ \A k \in 1 .. Len(call.merged) : Unit(call.merged[k].conf)
           /\ \A k \in 1 .. Len(ret.leds) : Unit(ret.leds[k].confidence)
    /\ Strict => \A k \in 1 .. Len(ret.leds) : Unit(ret.leds[k].confidence)

C16_Witness ==
    /\ variant = "extract" /\ ret.called
    /\ call.region.method = "hough"
    /\ call.region.mean > 200
    /\ Len(ret.candidates) = 1
    /\ ret.candidates[1].conf = 100

\* C17 (as claimed): once the Kalman filter of a slot exists, every frame
\* processed afterwards advances that filter by exactly one time step: predict
\* followed by correct with the measured position on a frame where the slot has
\* a measurement, predict only on a frame where it has none.
C17_FilterAdvancesEveryFrame ==
    Strict =>
        \A i \in DOMAIN call.old_trackers :
            /\ trackers[i].steps = call.old_trackers[i].steps + 1
            /\ call.triplet # None =>
                   trackers[i] = KalmanUpdate(call.old_trackers[i],
                                              SortByX(call.triplet)[i + 1].x,
                                              SortByX(call.triplet)[i + 1].y)
            /\ call.triplet = None => trackers[i] = predict_only(call.old_trackers[i])

\* C18: the set of slots (keys of trackers) is empty until the first successful
\* frame and exactly {0,1,2} from then on; no slot is removed or created again
\* while frames are processed; on the frame that creates a slot its filter state
\* is the raw measurement with zero velocity and the reported position is the
\* raw measurement.
C18_SlotLifecycle ==
    variant = "strict" =>
        /\ DOMAIN trackers = {} <=> last_valid_detection = None
        /\ DOMAIN trackers # {} => DOMAIN trackers = Ids
        /\ (ret.called /\ ret.success) => DOMAIN trackers = Ids
        /\ ret.called =>
               \A i \in DOMAIN call.old_trackers :
                   /\ i \in DOMAIN trackers
                   /\ \/ trackers[i] = call.old_trackers[i]
                      \/ /\ ret.success
                         /\ trackers[i] = KalmanUpdate(call.old_trackers[i],
                                                       SortByX(call.triplet)[i + 1].x,
                                                       SortByX(call.triplet)[i + 1].y)
        /\ ret.called =>
               \A i \in DOMAIN trackers \ DOMAIN call.old_trackers :
                   /\ ret.success
                   /\ trackers[i].x = 1000 * SortByX(call.triplet)[i + 1].x
                   /\ trackers[i].y = 1000 * SortByX(call.triplet)[i + 1].y
                   /\ trackers[i].vx = 0 /\ trackers[i].vy = 0
                   /\ ret.leds[i + 1].x = 1000 * SortByX(call.triplet)[i + 1].x
                   /\ ret.leds[i + 1].y = 1000 * SortByX(call.triplet)[i + 1].y

C18_Witness ==
    /\ Strict
    /\ frame_count = 3
    /\ ret.success
    /\ call.old_trackers # <<>>
    /\ \E i \in Ids : trackers[i].corrections = 1 /\ trackers[i].x # call.old_trackers[i].x

Statistics == variant = "statistics" /\ ret.called /\ ~ret.stats.empty

\* <<Q1, Q3>> of coordinate c of the samples t, times 4.
Quartiles4(t, c) ==
    <<Percentile4(SortAscending(Axis(t, c)), 1), Percentile4(SortAscending(Axis(t, c)), 3)>>

\* v lies in [Q1 - 3 IQR, Q3 + 3 IQR].
InInterval(v, q) ==
    /\ 4 * v >= q[1] - 3 * (q[2] - q[1])
    /\ 4 * v <= q[2] + 3 * (q[2] - q[1])

\* The samples of t with x and y inside the intervals, in their order in t.
Inliers(t, qx, qy) ==
    LET keep == Ascending({k \in 1 .. Len(t) : InInterval(t[k][1], qx) /\ InInterval(t[k][2], qy)})
    IN  [j \in 1 .. Len(keep) |-> t[keep[j]]]

\* The filter rule, for every identity.
KeepsInliers ==
    Statistics =>
        \A i \in Ids : \A t \in {led_positions(call.results, i)} :
            IF t = <<>> THEN ret.stats.leds[i].positions = <<>>
            ELSE \A qx \in {Quartiles4(t, 1)}, qy \in {Quartiles4(t, 2)} :
                     ret.stats.leds[i].positions = Inliers(t, qx, qy)

\* 101 successful results: in one the detection of id 0 is at (5000,5000), in the
\* other 100 it is within 25 px of (500,400) on both axes.
ClusterAndOutlier ==
    /\ Len(call.results) = 101
    /\ \A k \in 1 .. 101 : call.results[k].success
    /\ Cardinality({k \in 1 .. 101 : call.results[k] = Outlier}) = 1
    /\ \A k \in 1 .. 101 :
           call.results[k] # Outlier =>
               /\ Abs(call.results[k].leds[1].x - 500) <= 25
               /\ Abs(call.results[k].leds[1].y - 400) <= 25

\* The statistics of id 0 are those of the samples kept.
StatsFromKept ==
    \A kept \in {ret.stats.leds[0].positions} :
        /\ ret.stats.leds[0].detected_frames = Len(kept)
        /\ kept # <<>> =>
               ret.stats.leds[0].mean_position =
                   <<DivMilli(SumSeq(Axis(kept, 1)), Len(kept)),
                     DivMilli(SumSeq(Axis(kept, 2)), Len(kept))>>

\* C19 (as claimed): for each identity exactly the samples whose x and y both
\* lie inside [Q1 - 3 IQR, Q3 + 3 IQR] of their axis are kept, in their original
\* order; from 100 points clustered near (500,400) plus one point at (5000,5000)
\* exactly that one point is removed and the statistics are computed from the
\* 100 remaining points.
C19_RemovesExactlyTheOutlier ==
    /\ KeepsInliers
    /\ (Statistics /\ ClusterAndOutlier) =>
           /\ ret.stats.leds[0].positions =
                  SelectSeq(led_positions(call.results, 0), LAMBDA p : p # <<5000, 5000>>)
           /\ ret.stats.leds[0].detected_frames = 100
           /\ StatsFromKept

\* C19 (amended): the filter rule as claimed; from 100 points clustered near
\* (500,400) plus one point at (5000,5000) that point is removed, together with
\* the cluster points that lie outside the same intervals, and the statistics
\* are computed from the points that remain; exactly that one point is removed
\* when no cluster point lies outside the intervals.
C19_RemovesTheOutlier ==
    /\ KeepsInliers
    /\ (Statistics /\ ClusterAndOutlier) =>
           \A t \in {led_positions(call.results, 0)} :
             \A qx \in {Quartiles4(t, 1)}, qy \in {Quartiles4(t, 2)} :
               /\ \A k \in 1 .. Len(ret.stats.leds[0].positions) :
                      ret.stats.leds[0].positions[k] # <<5000, 5000>>
               /\ StatsFromKept
               /\ (\A k \in 1 .. Len(t) :
                       t[k] # <<5000, 5000>> => InInterval(t[k][1], qx) /\ InInterval(t[k][2], qy))
                      <=> ret.stats.leds[0].detected_frames = 100

C19_Witness ==
    /\ Statistics
    /\ ClusterAndOutlier
    /\ ret.stats.leds[0].detected_frames = 100
    /\ ret.stats.leds[0].max_x < 5000

Processing == variant \in {"robust_process", "strict_process"}

\* C20: process handles the frames in source order, calls detect once per
\* processed frame and appends one FrameResult per processed frame: at every
\* moment of a run results[i].frame_idx = i and results[i].timestamp = i / fps
\* (i from 0), the result is of the i-th frame of the file, the detector has
\* counted as many frames as there are results, and no step changes or removes
\* a result already appended.
C20_OneResultPerFrameInOrder ==
    [][Processing =>
          /\ Len(video'.results) \in {Len(video.results), Len(video.results) + 1}
          /\ SubSeq(video'.results, 1, Len(video.results)) = video.results
          /\ \A k \in 1 .. Len(video'.results) :
                 /\ video'.results[k].frame_idx = k - 1
                 /\ video'.results[k].timestamp = ((k - 1) * 1000) \div video'.file.fps
                 /\ video'.results[k].shot = k - 1
          /\ video'.pc # "raised" => frame_count' = Len(video'.results)]_vars

C20_Witness ==
    /\ variant = "robust_process"
    /\ video.pc = "returned"
    /\ video.max_frames = 0
    /\ Len(video.results) = 2
    /\ video.results[2].frame_idx = 1
    /\ video.results[2].timestamp = 33

\* ------------------------------------------------------------------ C21
Kalman == variant = "kalman" /\ ret.called

\* C21 (as claimed): when a KalmanTracker has been fed at least 30 samples of a
\* constant-velocity trajectory measured with zero-mean noise of known sigma,
\* the variance of the error of the smoothed positions with respect to the true
\* trajectory is strictly lower than the variance of the error of the raw
\* measurements.
C21_SmoothingLowersVariance ==
    (Kalman /\ call.sums.n >= 30) =>
        ScaledVariance(call.sums.n, call.sums.smoothed, call.sums.smoothed2)
            < ScaledVariance(call.sums.n, call.sums.raw, call.sums.raw2)

\* The claim's case on a point at rest, where it holds.
SmoothsAtRest ==
    (Kalman /\ call.sums.n >= 30 /\ call.velocity = 0) =>
        ScaledVariance(call.sums.n, call.sums.smoothed, call.sums.smoothed2)
            < ScaledVariance(call.sums.n, call.sums.raw, call.sums.raw2)

\* ------------------------------------------------------------------ C22
\* C22 (as claimed): after every 3-point frame processed by
\* _assign_led_ids_robust, for each id i the position kept as slot i for the
\* next frame's comparison, last_positions[i], is the position of the point that
\* was returned with id i in that frame.
C22_SlotKeepsItsPoint ==
    (Robust /\ ~ret.raised /\ call.branch \in {"first", "tracked"}) =>
        \A k \in 1 .. Len(ret.leds) :
            Pos(last_positions[ret.led_ids[k] + 1]) = <<ret.leds[k].x, ret.leds[k].y>>

\* The same on the frame that initializes the slots, where it holds.
SlotKeepsItsPointAtFirst ==
    (Robust /\ ~ret.raised /\ call.branch = "first") =>
        \A k \in 1 .. Len(ret.leds) :
            Pos(last_positions[ret.led_ids[k] + 1]) = <<ret.leds[k].x, ret.leds[k].y>>

\* ------------------------------------------------------------------ C23
Best == variant = "best" /\ ret.called

\* The 3-point combinations of the candidates, as index triples, and those that
\* pass _validate_triplet.
Triples(n) == {c \in (1 .. n) \X (1 .. n) \X (1 .. n) : c[1] < c[2] /\ c[2] < c[3]}

Passing(blobs) == {c \in Triples(Len(blobs)) : validate_triplet(Pick(blobs, c))}

\* collinearity_error + 10 * |spacing_ratio - 1|, in thousandths.
ClaimedScore(triplet) ==
    calculate_geometry(triplet)[1] + 10 * Abs(calculate_geometry(triplet)[2] - 1000)

DegenerateTriplet(triplet) ==
    \/ Dist2(SortByX(triplet)[1], SortByX(triplet)[2]) < 1
    \/ Dist2(SortByX(triplet)[2], SortByX(triplet)[3]) < 1
    \/ Dist2(SortByX(triplet)[1], SortByX(triplet)[3]) < 1

\* C24: for a triplet with d12 < 1, d23 < 1 or a baseline shorter than 1 px,
\* _calculate_geometry returns (inf, inf, 0, 0) without raising, and
\* _validate_triplet rejects the triplet; _find_best_triplet never returns such
\* a triplet.
C24_DegenerateIsSentinel ==
    /\ (Validated /\ DegenerateTriplet(call.triplet)) =>
           /\ ~ret.raised
           /\ ret.geometry = <<Inf, Inf, 0, 0>>
           /\ ~ret.valid
    /\ (Best /\ ret.triplet # None) => ~DegenerateTriplet(ret.triplet)

\* A triplet whose adjacent points are 100 px apart and whose outer points
\* coincide.
C24_Witness ==
    /\ Validated
    /\ DegenerateTriplet(call.triplet)
    /\ Dist2(SortByX(call.triplet)[1], SortByX(call.triplet)[2]) >= 1
    /\ Dist2(SortByX(call.triplet)[2], SortByX(call.triplet)[3]) >= 1

\* ------------------------------------------------------------------ C25
\* The candidates in descending confidence, those of equal confidence in their
\* input order: candidate i comes behind those of higher confidence and behind
\* the earlier ones of the same confidence.
StableRank(all, i) ==
    1 + Cardinality({j \in 1 .. Len(all) : all[j].conf > all[i].conf})
      + Cardinality({j \in 1 .. (i - 1) : all[j].conf = all[i].conf})

ByConfidence(all) ==
    [r \in 1 .. Len(all) |-> all[CHOOSE i \in 1 .. Len(all) : StableRank(all, i) = r]]

Near(p, q) == Dist2(p, q) < 20 * 20

\* The seeds of the reference clustering of the ordered candidates s: a
\* candidate is a seed exactly when no earlier seed is closer than 20 px.
Seeds(s) ==
    CHOOSE S \in SUBSET (1 .. Len(s)) :
        \A i \in 1 .. Len(s) :
            i \in S <=> ~\E j \in S : j < i /\ Near(s[j], s[i])

\* The cluster of seed j: j and every later candidate closer than 20 px to it
\* that no earlier seed has taken.
ClusterOf(s, j) ==
    {j} \cup {i \in (j + 1) .. Len(s) :
                 /\ Near(s[j], s[i])
                 /\ \A e \in Seeds(s) : e < j => ~Near(s[e], s[i])}

\* p is the confidence-weighted mean position of the candidates C of s, and has
\* the arithmetic mean of their confidences, to the nearest pixel and hundredth.
IsFusedPoint(p, s, C) ==
    LET members == Ascending(C)
        total   == SumSeq([k \in 1 .. Len(members) |-> s[members[k]].conf])
        sum_x   == SumSeq([k \in 1 .. Len(members) |-> s[members[k]].x * s[members[k]].conf])
        sum_y   == SumSeq([k \in 1 .. Len(members) |-> s[members[k]].y * s[members[k]].conf])
    IN  /\ 2 * Abs(p.x * total - sum_x) <= total
        /\ 2 * Abs(p.y * total - sum_y) <= total
        /\ 2 * Abs(p.conf * Len(members) - total) <= Len(members)

Candidates == ByConfidence(Flatten(call.detections_list))

\* C25: the fused points returned by _merge_detections are those of the
\* reference greedy clustering of the candidates taken in descending
\* confidence: every candidate is in exactly one cluster, a cluster is its seed
\* (the first candidate no earlier cluster has taken) with every candidate no
\* earlier cluster has taken that is closer than 20 px to the seed, and the k-th
\* point returned is the confidence-weighted mean position and the mean
\* confidence of the k-th cluster.
C25_ReferenceClustering ==
    MergedLists =>
        /\ \A i \in 1 .. Len(Candidates) :
               Cardinality({j \in Seeds(Candidates) : i \in ClusterOf(Candidates, j)}) = 1
        /\ Len(ret.merged) = Cardinality(Seeds(Candidates))
        /\ \A k \in 1 .. Len(ret.merged) :
               IsFusedPoint(ret.merged[k], Candidates,
                            ClusterOf(Candidates, Ascending(Seeds(Candidates))[k]))

\* Two clusters or more, one of them with candidates of different confidence,
\* and a candidate closer than 20 px to a member of a cluster it is not in.
C25_Witness ==
    /\ MergedLists
    /\ Len(ret.merged) >= 2
    /\ \E j \in Seeds(Candidates) :
           /\ \E i \in ClusterOf(Candidates, j) : Candidates[i].conf # Candidates[j].conf
           /\ \E i \in ClusterOf(Candidates, j), o \in 1 .. Len(Candidates) :
                  o \notin ClusterOf(Candidates, j) /\ Near(Candidates[i], Candidates[o])

\* ------------------------------------------------------------------ C26
\* C26: _merge_detections processes the candidates in descending confidence and
\* those of identical confidence in their input order (det1 .. det4, then the
\* position in the extractor's list); a second run on the same lists returns
\* the same fused points in the same order.
C26_TiesInInputOrder ==
    MergedLists =>
        /\ ret.order = ByConfidence(Flatten(call.detections_list))
        /\ \A a, b \in 1 .. Len(ret.order) :
               (a < b /\ ret.order[a].conf = ret.order[b].conf) =>
                   \E i, j \in 1 .. Len(Flatten(call.detections_list)) :
                       /\ i < j
                       /\ Flatten(call.detections_list)[i] = ret.order[a]
                       /\ Flatten(call.detections_list)[j] = ret.order[b]
        /\ ret.merged = merge_detections(call.detections_list)

\* Candidates of identical confidence from different extractors, behind a
\* candidate of higher confidence that comes later in the input.
C26_Witness ==
    /\ MergedLists
    /\ Len(call.detections_list[1]) >= 2
    /\ Len(call.detections_list[4]) = 1
    /\ call.detections_list[1][1].conf = 40
    /\ call.detections_list[1][2].conf = 40
    /\ call.detections_list[2] # <<>>
    /\ call.detections_list[2][1].conf = 40
    /\ call.detections_list[4][1].conf = 100
    /\ ret.order[1] = call.detections_list[4][1]
    /\ ret.order[2] = call.detections_list[1][1]

\* ------------------------------------------------------------------ C28
\* C28 (as claimed): no two distinct fused points returned by _merge_detections
\* lie within the merge radius of 20 px of each other.
C28_FusedPointsApart ==
    MergedLists =>
        \A a, b \in 1 .. Len(ret.merged) :
            a # b => ~(Dist2(ret.merged[a], ret.merged[b]) < 20 * 20)

\* What does hold: the seeds of two clusters are never closer than 20 px.
SeedsApart ==
    MergedLists =>
        \A a, b \in Seeds(Candidates) :
            a # b => ~Near(Candidates[a], Candidates[b])

\* ------------------------------------------------------------------ C27
\* The position of the point returned with id i by the last frame.
ReturnedAs(i) ==
    Pos(ret.leds[CHOOSE k \in 1 .. Len(ret.leds) : ret.led_ids[k] = i])

\* C27: a frame of RobustLEDDetector that is resolved with 3 identities appends
\* to each led_trajectory[i] exactly one sample, the position of the point
\* returned with id i, and every other frame leaves the three trajectories as
\* they were; after any sequence of frames each trajectory has as many samples
\* as there were successful frames.
C27_TrajectoriesAppendOnly ==
    Robust =>
        /\ \A i \in Ids : Len(led_trajectory[i]) = call.successes
        /\ IF ~ret.raised /\ ret.success
           THEN /\ {ret.led_ids[k] : k \in 1 .. Len(ret.led_ids)} = Ids
                /\ \A i \in Ids :
                       led_trajectory[i] = Append(call.old_trajectory[i], ReturnedAs(i))
           ELSE led_trajectory = call.old_trajectory

\* Third frame: the slots were initialized, one frame failed, and this one gave
\* some ids through the nearest-neighbour step and some through the fill-in.
C27_Witness ==
    /\ Robust
    /\ frame_count = 3
    /\ call.successes = 2
    /\ call.branch = "tracked"
    /\ call.filled # {}
    /\ \E i \in Ids : call.assignment[i] # -1

\* ------------------------------------------------------------------ C29
Marker == variant = "marker" /\ ret.called

\* C29 (as claimed): for any sequence of frames with any number of detections,
\* VideoMarker._assign_led_ids returns every detection passed in with an id,
\* the ids returned for a frame are pairwise distinct, and every id is 0, 1 or 2.
C29_EveryDetectionGetsAnId ==
    Marker =>
        /\ \A d \in 1 .. Len(call.detections) :
               \E k \in 1 .. Len(ret.assigned) :
                   Pos(ret.assigned[k]) = Pos(call.detections[d])
        /\ \A a, b \in 1 .. Len(ret.assigned) :
               a # b => ret.assigned[a].led_id # ret.assigned[b].led_id
        /\ \A k \in 1 .. Len(ret.assigned) : ret.assigned[k].led_id \in Ids

\* The same for the frames of at most expected_leds detections, where it holds.
IdsForAtMostThree ==
    (Marker /\ Len(call.detections) <= expected_leds) =>
        /\ \A d \in 1 .. Len(call.detections) :
               \E k \in 1 .. Len(ret.assigned) :
                   Pos(ret.assigned[k]) = Pos(call.detections[d])
        /\ \A a, b \in 1 .. Len(ret.assigned) :
               a # b => ret.assigned[a].led_id # ret.assigned[b].led_id
        /\ \A k \in 1 .. Len(ret.assigned) : ret.assigned[k].led_id \in Ids

\* For any number of detections: no id is given to two points of a frame.
IdsPairwiseDistinct ==
    Marker =>
        \A a, b \in 1 .. Len(ret.assigned) :
            a # b => ret.assigned[a].led_id # ret.assigned[b].led_id

\* A frame that loses a detection.
DetectionDropped == Marker /\ Len(ret.assigned) < Len(call.detections)

\* ------------------------------------------------------------------ C30
\* C30 (as claimed): when process of led_detector_final.py returns,
\* self.frame_count equals len(self.results), whichever way the loop ended: end
\* of the video, max_frames reached, or the 'q' key.
C30_FrameCountIsResults ==
    (variant = "robust_process" /\ video.pc = "returned") =>
        video.frame_count = Len(video.results)

====
